---- MODULE Spec2Model ----
(***************************************************************************)
(* The verified circular buffer of src/core/circular_buffer_verified.c as  *)
(* a state machine: one VERIFIED_CIRC_BUFFER, the heap blocks it owns, a   *)
(* caller that issues the API calls, and the history needed to state the   *)
(* ring's contract (the logical stream, what was copied out, the last      *)
(* call).                                                                  *)
(***************************************************************************)
EXTENDS Integers, Sequences, FiniteSets, TLC

\* ------------------------------------------------------------------ bounds

\* uint32_t is modelled as a WordBits-bit unsigned word, so the powers of two
\* a length can take are 2^0 .. 2^(WordBits - 1).
WordBits == 6
\* At most MaxTotal bytes are written between Initialize and Uninitialize.
MaxTotal == 8
\* The allocator hands out blocks 1 .. MaxPtr; 0 is NULL.
MaxPtr == 2

\* uint8_t: the mask of fill_pattern
ByteMask == 255

NULL == 0
Ptrs == 1..MaxPtr
UInt8 == 0..ByteMask
UInt32Mod == 2^WordBits
Pow2s == {2^k : k \in 0..(WordBits - 1)}

IsPow2(n) == n \in Pow2s

NoView == [ptr |-> NULL, rs |-> 0, al |-> 0, len |-> 0]
\* a call: its name, its length argument, what it returned, the AllocationFailed
\* it reported, and whether malloc returned NULL inside it
Call(name, len, ret, failed, nomem) ==
    [name |-> name, len |-> len, ret |-> ret, failed |-> failed, nomem |-> nomem]
NoOp == Call("none", 0, FALSE, FALSE, FALSE)

VARIABLES
    Buffer,         \* Cb->Buffer: a block of the heap, or NULL
    ReadStart,      \* Cb->ReadStart
    AllocLength,    \* Cb->AllocLength
    PrefixLength,   \* Cb->PrefixLength
    VirtualLength,  \* Cb->VirtualLength
    heap,           \* block -> its bytes (<<>>: not allocated)
    Destination,    \* the caller's copy made by the last ReadBuffer
    view,           \* the zero-copy view handed out by GetInternalBuffer
    status,         \* "running", or how the process ended
    op,             \* the last call: its name, length argument and result
    stream,         \* history: bytes appended by WriteBuffer and not yet drained
    written,        \* history: all bytes the ring accepted, in call order
    readOut,        \* history: the copies the caller drained right after reading
    drained,        \* history: how many bytes Drain has released
    ahead,          \* gap tracking: logical offsets beyond the prefix that hold a byte
    misuse          \* history: some call broke its documented precondition

cb == <<Buffer, ReadStart, AllocLength, PrefixLength, VirtualLength>>
hist == <<stream, written, readOut, drained, ahead, misuse>>
vars == <<Buffer, ReadStart, AllocLength, PrefixLength, VirtualLength, heap,
          Destination, view, status, op, stream, written, readOut, drained,
          ahead, misuse>>

\* ----------------------------------------------------------------- helpers

\* memset(p, 0, n) on a fresh block of n bytes
ZeroBuf(n) == [i \in 1..n |-> 0]

\* memcpy(dst + d, src + s, n): offsets are 0-based, sequences 1-based
Memcpy(dst, d, src, s, n) ==
    [i \in 1..Len(dst) |-> IF d < i /\ i <= d + n THEN src[s + (i - d)] ELSE dst[i]]

\* memset(dst + d, 0, n)
Memset(dst, d, n) ==
    [i \in 1..Len(dst) |-> IF d < i /\ i <= d + n THEN 0 ELSE dst[i]]

\* memory of n bytes that nothing has written yet, holding g in every byte
Unwritten(n, g) == [i \in 1..n |-> g]

\* blocks malloc may return
FreePtrs == {p \in Ptrs : heap[p] = <<>>}

\* CircularIndex, one slot too far
CircularIndex_OffByOne(Rs, Offset, Al) == ((Rs + Offset + 1) % UInt32Mod) % Al

\* CircularIndex whose sum stops at the largest word instead of wrapping
CircularIndex_Saturating(Rs, Offset, Al) ==
    (IF Rs + Offset < UInt32Mod THEN Rs + Offset ELSE UInt32Mod - 1) % Al

\* (ReadStart + Offset) % AllocLength, the sum in a 32-bit word
CircularIndex(Rs, Offset, Al) == ((Rs + Offset) % UInt32Mod) % Al

\* the ring and the heap it lives in, as one value
Cb == [Buffer |-> Buffer, ReadStart |-> ReadStart, AllocLength |-> AllocLength,
       PrefixLength |-> PrefixLength, VirtualLength |-> VirtualLength,
       heap |-> heap]

\* LinearizeCopy without its second segment
LinearizeCopy_HeadOnly(old, Rs, OldAllocLength, NewAllocLength) ==
    Memcpy(ZeroBuf(NewAllocLength), 0, old, Rs, OldAllocLength - Rs)

\* the two-segment linearization copy of Resize into a fresh zeroed block
LinearizeCopy(old, Rs, OldAllocLength, NewAllocLength) ==
    LET NewBuffer == ZeroBuf(NewAllocLength)
        HeadLen == OldAllocLength - Rs
        seg1 == Memcpy(NewBuffer, 0, old, Rs, HeadLen)
    IN  IF Rs > 0 THEN Memcpy(seg1, HeadLen, old, 0, Rs) ELSE seg1

\* ResizeCb that copies the old block as it lies and keeps the read head
ResizeCb_PlainCopy(c, NewAllocLength, p) ==
    [c EXCEPT !.heap = [c.heap EXCEPT
                           ![p] = Memcpy(ZeroBuf(NewAllocLength), 0,
                                         c.heap[c.Buffer], 0, c.AllocLength),
                           ![c.Buffer] = <<>>],
              !.Buffer = p,
              !.AllocLength = NewAllocLength]

\* ResizeCb that does not free the block it replaces
ResizeCb_LeaksOld(c, NewAllocLength, p) ==
    [c EXCEPT !.heap = [c.heap EXCEPT
                           ![p] = LinearizeCopy(c.heap[c.Buffer], c.ReadStart,
                                                c.AllocLength, NewAllocLength)],
              !.Buffer = p,
              !.ReadStart = 0,
              !.AllocLength = NewAllocLength]

\* VerifiedCircBufResize on ring c when malloc returned block p (p # NULL)
ResizeCb(c, NewAllocLength, p) ==
    [c EXCEPT !.heap = [c.heap EXCEPT
                           ![p] = LinearizeCopy(c.heap[c.Buffer], c.ReadStart,
                                                c.AllocLength, NewAllocLength),
                           ![c.Buffer] = <<>>],
              !.Buffer = p,
              !.ReadStart = 0,
              !.AllocLength = NewAllocLength]

\* DoubleUntil that doubles once
DoubleUntil_Once(NewAl, Needed) ==
    IF NewAl < Needed THEN (NewAl + NewAl) % UInt32Mod ELSE NewAl

\* DoubleUntil that takes the needed length as it is
DoubleUntil_ExactFit(NewAl, Needed) ==
    IF NewAl < Needed THEN Needed ELSE NewAl

\* DoubleUntil that goes on while NewAl <= Needed
RECURSIVE DoubleUntil_Overshoot(_, _)
DoubleUntil_Overshoot(NewAl, Needed) ==
    IF NewAl <= Needed
    THEN IF NewAl = 0 THEN -1
         ELSE DoubleUntil_Overshoot((NewAl + NewAl) % UInt32Mod, Needed)
    ELSE NewAl

\* the doubling loop of WriteBuffer; -1 when it never ends (NewAl wrapped to 0)
RECURSIVE DoubleUntil(_, _)
DoubleUntil(NewAl, Needed) ==
    IF NewAl < Needed
    THEN IF NewAl = 0 THEN -1
         ELSE DoubleUntil((NewAl + NewAl) % UInt32Mod, Needed)
    ELSE NewAl

\* WriteCopy that starts at the read head instead of the prefix's end
WriteCopy_AtReadStart(buf, Rs, Pl, Al, Source) ==
    LET WriteLength == Len(Source)
        WriteStart == CircularIndex(Rs, 0, Al)
        SpaceToEnd == Al - WriteStart
    IN  IF WriteLength <= SpaceToEnd
        THEN Memcpy(buf, WriteStart, Source, 0, WriteLength)
        ELSE Memcpy(Memcpy(buf, WriteStart, Source, 0, SpaceToEnd),
                    0, Source, SpaceToEnd, WriteLength - SpaceToEnd)

\* the two-segment copy of WriteBuffer into block buf of length Al
WriteCopy(buf, Rs, Pl, Al, Source) ==
    LET WriteLength == Len(Source)
        WriteStart == CircularIndex(Rs, Pl, Al)
        SpaceToEnd == Al - WriteStart
    IN  IF WriteLength <= SpaceToEnd
        THEN Memcpy(buf, WriteStart, Source, 0, WriteLength)
        ELSE Memcpy(Memcpy(buf, WriteStart, Source, 0, SpaceToEnd),
                    0, Source, SpaceToEnd, WriteLength - SpaceToEnd)

\* ReadCopy that stops at the end of the block
ReadCopy_OneSegment(buf, Rs, Al, ReadLength) ==
    LET SpaceToEnd == Al - Rs
    IN  Memcpy(ZeroBuf(ReadLength), 0, buf, Rs,
               IF ReadLength <= SpaceToEnd THEN ReadLength ELSE SpaceToEnd)

\* the two-segment copy of ReadBuffer out of block buf of length Al
ReadCopy(buf, Rs, Al, ReadLength) ==
    LET SpaceToEnd == Al - Rs
        dst == ZeroBuf(ReadLength)
    IN  IF ReadLength <= SpaceToEnd
        THEN Memcpy(dst, 0, buf, Rs, ReadLength)
        ELSE Memcpy(Memcpy(dst, 0, buf, Rs, SpaceToEnd),
                    SpaceToEnd, buf, 0, ReadLength - SpaceToEnd)

\* VerifiedCircBufDrain(c, DrainLength) on ring c
DrainCb(c, DrainLength) ==
    [c EXCEPT !.ReadStart = CircularIndex(c.ReadStart, DrainLength, c.AllocLength),
              !.PrefixLength = (c.PrefixLength - DrainLength + UInt32Mod) % UInt32Mod]

\* the byte VerifiedCircBufReadByte returns: Buffer[PhysIdx]
ReadByteResult(buf, Rs, Al, Offset) ==
    LET PhysIdx == CircularIndex(Rs, Offset, Al)
    IN  buf[PhysIdx + 1]

\* --------------------------------------------- the memcpy calls, as index ranges

\* memcpy(dst + d, src + s, n)
Seg(d, s, n) == [d |-> d, s |-> s, n |-> n]

\* memcpy(dst + d, src + s, n) stays inside dst[0 .. dstLen) and src[0 .. srcLen)
MemcpyInBounds(seg, dstLen, srcLen) ==
    /\ seg.n >= 0
    /\ seg.d >= 0 /\ seg.d + seg.n <= dstLen
    /\ seg.s >= 0 /\ seg.s + seg.n <= srcLen

\* WriteSegments as one memcpy of WriteLength bytes from WriteStart
WriteSegments_NoSplit(Rs, Pl, Al, WriteLength) ==
    {Seg(CircularIndex(Rs, Pl, Al), 0, WriteLength)}

\* the memcpy calls of WriteBuffer: dst is the ring, src is Source
WriteSegments(Rs, Pl, Al, WriteLength) ==
    LET WriteStart == CircularIndex(Rs, Pl, Al)
        SpaceToEnd == (Al - WriteStart + UInt32Mod) % UInt32Mod
    IN  IF WriteLength <= SpaceToEnd
        THEN {Seg(WriteStart, 0, WriteLength)}
        ELSE {Seg(WriteStart, 0, SpaceToEnd),
              Seg(0, SpaceToEnd, (WriteLength - SpaceToEnd + UInt32Mod) % UInt32Mod)}

\* the memcpy calls of ReadBuffer: dst is Destination, src is the ring
ReadSegments(Rs, Al, ReadLength) ==
    LET SpaceToEnd == (Al - Rs + UInt32Mod) % UInt32Mod
    IN  IF ReadLength <= SpaceToEnd
        THEN {Seg(0, Rs, ReadLength)}
        ELSE {Seg(0, Rs, SpaceToEnd),
              Seg(SpaceToEnd, 0, (ReadLength - SpaceToEnd + UInt32Mod) % UInt32Mod)}

\* the memcpy calls of LinearizeTo: dst is Dest, src is the ring
LinearizeToSegments(Rs, OldAllocLength, DestLength) ==
    LET CopyLen == IF OldAllocLength < DestLength THEN OldAllocLength ELSE DestLength
        HeadLen == (OldAllocLength - Rs + UInt32Mod) % UInt32Mod
    IN  IF CopyLen <= HeadLen
        THEN {Seg(0, Rs, CopyLen)}
        ELSE {Seg(0, Rs, HeadLen),
              Seg(HeadLen, 0, (CopyLen - HeadLen + UInt32Mod) % UInt32Mod)}

\* ResizeSegments with its second memcpy issued unconditionally
ResizeSegments_AlwaysTwo(Rs, OldAllocLength) ==
    LET HeadLen == (OldAllocLength - Rs + UInt32Mod) % UInt32Mod
    IN  {Seg(0, Rs, HeadLen), Seg(HeadLen, 0, Rs)}

\* the memcpy calls of Resize: dst is the new block, src is the old one
ResizeSegments(Rs, OldAllocLength) ==
    LET HeadLen == (OldAllocLength - Rs + UInt32Mod) % UInt32Mod
    IN  {Seg(0, Rs, HeadLen)} \cup (IF Rs > 0 THEN {Seg(HeadLen, 0, Rs)} ELSE {})

\* what a drain of n bytes leaves of an outstanding view
ViewAfterDrain(n) ==
    IF view.len > n THEN [view EXCEPT !.len = view.len - n] ELSE NoView

SetCb(c) ==
    /\ Buffer' = c.Buffer
    /\ ReadStart' = c.ReadStart
    /\ AllocLength' = c.AllocLength
    /\ PrefixLength' = c.PrefixLength
    /\ VirtualLength' = c.VirtualLength
    /\ heap' = c.heap

\* ------------------------------------------- the documented preconditions

\* alloc and virtual are powers of two, alloc <= virtual
InitializePre(Al, Vl) == IsPow2(Al) /\ IsPow2(Vl) /\ Al <= Vl
\* offset < AllocLength
WriteBytePre(Offset) == Offset < AllocLength
\* n <= AllocLength && n <= PrefixLength
DrainPre(n) == n <= AllocLength /\ n <= PrefixLength
\* a power of 2, >= current AllocLength, <= VirtualLength
ResizePre(n) == IsPow2(n) /\ n >= AllocLength /\ n <= VirtualLength
\* gapless, and PrefixLength + WriteLength <= VirtualLength
WriteBufferPre(n) == ahead = {} /\ PrefixLength + n <= VirtualLength
\* ReadLength <= PrefixLength && ReadLength <= AllocLength
ReadBufferPre(n) == n <= PrefixLength /\ n <= AllocLength

\* ----------------------------------------------------------------- actions

Init ==
    /\ Buffer = NULL
    /\ ReadStart = 0
    /\ AllocLength = 0
    /\ PrefixLength = 0
    /\ VirtualLength = 0
    /\ heap = [p \in Ptrs |-> <<>>]
    /\ Destination = <<>>
    /\ view = NoView
    /\ status = "running"
    /\ op = NoOp
    /\ stream = <<>>
    /\ written = <<>>
    /\ readOut = <<>>
    /\ drained = 0
    /\ ahead = {}
    /\ misuse = FALSE

\* Initialize that stores the allocation length as the virtual length
Initialize_VirtualIsAlloc(Al, Vl, p) ==
    /\ status = "running"
    /\ IF p = NULL
       THEN /\ op' = Call("Initialize", Al, FALSE, FALSE, TRUE)
            /\ UNCHANGED <<cb, heap, Destination, view, status, hist>>
       ELSE /\ heap' = [heap EXCEPT ![p] = ZeroBuf(Al)]
            /\ Buffer' = p
            /\ ReadStart' = 0
            /\ AllocLength' = Al
            /\ PrefixLength' = 0
            /\ VirtualLength' = Al
            /\ op' = Call("Initialize", Al, TRUE, FALSE, FALSE)
            /\ Destination' = <<>>
            /\ view' = NoView
            /\ stream' = <<>>
            /\ written' = <<>>
            /\ readOut' = <<>>
            /\ drained' = 0
            /\ ahead' = {}
            /\ misuse' = FALSE
            /\ UNCHANGED status

\* VerifiedCircBufInitialize(Cb, Al, Vl); malloc returns p
Initialize(Al, Vl, p) ==
    /\ status = "running"
    /\ IF p = NULL
       THEN /\ op' = Call("Initialize", Al, FALSE, FALSE, TRUE)
            /\ UNCHANGED <<cb, heap, Destination, view, status, hist>>
       ELSE /\ heap' = [heap EXCEPT ![p] = ZeroBuf(Al)]
            /\ Buffer' = p
            /\ ReadStart' = 0
            /\ AllocLength' = Al
            /\ PrefixLength' = 0
            /\ VirtualLength' = Vl
            /\ op' = Call("Initialize", Al, TRUE, FALSE, FALSE)
            /\ Destination' = <<>>
            /\ view' = NoView
            /\ stream' = <<>>
            /\ written' = <<>>
            /\ readOut' = <<>>
            /\ drained' = 0
            /\ ahead' = {}
            /\ misuse' = FALSE
            /\ UNCHANGED status

\* Uninitialize that leaves Buffer pointing at the freed block; freeing a block
\* twice ends the process
Uninitialize_KeepsPointer ==
    /\ status = "running"
    /\ IF Buffer # NULL /\ heap[Buffer] # <<>>
       THEN /\ heap' = [heap EXCEPT ![Buffer] = <<>>]
            /\ UNCHANGED <<Buffer, status>>
       ELSE /\ status' = IF Buffer # NULL THEN "crashed" ELSE status
            /\ UNCHANGED <<heap, Buffer>>
    /\ op' = Call("Uninitialize", 0, TRUE, FALSE, FALSE)
    /\ UNCHANGED <<ReadStart, AllocLength, PrefixLength, VirtualLength,
                   Destination, view, hist>>

\* VerifiedCircBufUninitialize(Cb)
Uninitialize ==
    /\ status = "running"
    /\ IF Buffer # NULL
       THEN /\ heap' = [heap EXCEPT ![Buffer] = <<>>]
            /\ Buffer' = NULL
       ELSE UNCHANGED <<heap, Buffer>>
    /\ op' = Call("Uninitialize", 0, TRUE, FALSE, FALSE)
    /\ UNCHANGED <<ReadStart, AllocLength, PrefixLength, VirtualLength,
                   Destination, view, status, hist>>

\* Drain that puts the read head back to 0 when the ring becomes empty
Drain_ResetWhenEmpty(DrainLength) ==
    /\ status = "running"
    /\ ReadStart' = IF DrainLength = PrefixLength THEN 0
                    ELSE CircularIndex(ReadStart, DrainLength, AllocLength)
    /\ PrefixLength' = (PrefixLength - DrainLength + UInt32Mod) % UInt32Mod
    /\ op' = Call("Drain", DrainLength, TRUE, FALSE, FALSE)
    /\ view' = ViewAfterDrain(DrainLength)
    /\ stream' = SubSeq(stream, DrainLength + 1, Len(stream))
    /\ drained' = drained + DrainLength
    /\ IF DrainLength = 0
       THEN UNCHANGED <<Destination, readOut>>
       ELSE /\ Destination' = <<>>
            /\ readOut' = IF DrainLength = Len(Destination)
                          THEN readOut \o Destination
                          ELSE readOut
    /\ ahead' = {o - DrainLength : o \in {a \in ahead : a >= DrainLength}}
    /\ misuse' = (misuse \/ ~DrainPre(DrainLength))
    /\ UNCHANGED <<Buffer, AllocLength, VirtualLength, heap, status, written>>

\* VerifiedCircBufDrain(Cb, DrainLength)
Drain(DrainLength) ==
    /\ status = "running"
    /\ ReadStart' = CircularIndex(ReadStart, DrainLength, AllocLength)
    /\ PrefixLength' = (PrefixLength - DrainLength + UInt32Mod) % UInt32Mod
    /\ op' = Call("Drain", DrainLength, TRUE, FALSE, FALSE)
    /\ view' = ViewAfterDrain(DrainLength)
    /\ stream' = SubSeq(stream, DrainLength + 1, Len(stream))
    /\ drained' = drained + DrainLength
    /\ IF DrainLength = 0
       THEN UNCHANGED <<Destination, readOut>>
       ELSE /\ Destination' = <<>>
            /\ readOut' = IF DrainLength = Len(Destination)
                          THEN readOut \o Destination
                          ELSE readOut
    /\ ahead' = {o - DrainLength : o \in {a \in ahead : a >= DrainLength}}
    /\ misuse' = (misuse \/ ~DrainPre(DrainLength))
    /\ UNCHANGED <<Buffer, AllocLength, VirtualLength, heap, status, written>>

\* Resize that resets the read head before it looks at what malloc returned
Resize_ResetOnFailure(NewAllocLength, p) ==
    /\ status = "running"
    /\ IF p = NULL
       THEN /\ op' = Call("Resize", NewAllocLength, FALSE, FALSE, TRUE)
            /\ ReadStart' = 0
            /\ UNCHANGED <<Buffer, AllocLength, PrefixLength, VirtualLength, heap>>
       ELSE /\ SetCb(ResizeCb(Cb, NewAllocLength, p))
            /\ op' = Call("Resize", NewAllocLength, TRUE, FALSE, FALSE)
    /\ misuse' = (misuse \/ ~ResizePre(NewAllocLength))
    /\ UNCHANGED <<Destination, view, status, stream, written, readOut, drained,
                   ahead>>

\* VerifiedCircBufResize(Cb, NewAllocLength); malloc returns p
Resize(NewAllocLength, p) ==
    /\ status = "running"
    /\ IF p = NULL
       THEN /\ op' = Call("Resize", NewAllocLength, FALSE, FALSE, TRUE)
            /\ UNCHANGED <<cb, heap>>
       ELSE /\ SetCb(ResizeCb(Cb, NewAllocLength, p))
            /\ op' = Call("Resize", NewAllocLength, TRUE, FALSE, FALSE)
    /\ misuse' = (misuse \/ ~ResizePre(NewAllocLength))
    /\ UNCHANGED <<Destination, view, status, stream, written, readOut, drained,
                   ahead>>

\* VerifiedCircBufResize(Cb, NewAllocLength) with NewAllocLength < AllocLength
\* and a block p from malloc: the linearization memcpy runs past the end of the
\* new block, which is undefined. The process either dies there, or goes on
\* with the part of the copy that fits.
ResizeOverflow(NewAllocLength, p, outcome) ==
    /\ status = "running"
    /\ NewAllocLength < AllocLength
    /\ p # NULL
    /\ IF outcome = "crashed"
       THEN /\ status' = "crashed"
            /\ op' = Call("Resize", NewAllocLength, FALSE, FALSE, FALSE)
            /\ misuse' = TRUE
            /\ UNCHANGED <<cb, heap, Destination, view, stream, written, readOut,
                           drained, ahead>>
       ELSE Resize(NewAllocLength, p)

\* WriteReturn that reports every completed write as new data
WriteReturn_Always(WriteLength) == TRUE

\* what WriteBuffer returns once the bytes are copied
WriteReturn(WriteLength) == WriteLength > 0

\* WriteBuffer that resizes as soon as the ring would be full
WriteBuffer_GrowsWhenFull(Source, p) ==
    LET WriteLength == Len(Source)
        Pl == PrefixLength
        Needed == (Pl + WriteLength) % UInt32Mod
        grow == Needed >= AllocLength
        NewAl == IF grow THEN DoubleUntil(AllocLength, Needed) ELSE AllocLength
        c1 == IF grow THEN ResizeCb(Cb, NewAl, p) ELSE Cb
        buf == WriteCopy(c1.heap[c1.Buffer], c1.ReadStart, Pl, c1.AllocLength, Source)
    IN  /\ status = "running"
        /\ IF NewAl = -1
           THEN /\ status' = "hung"
                /\ UNCHANGED <<cb, heap, op, stream, written>>
           ELSE IF grow /\ p = NULL
           THEN /\ op' = Call("WriteBuffer", WriteLength, FALSE, TRUE, TRUE)
                /\ UNCHANGED <<cb, heap, status, stream, written>>
           ELSE /\ SetCb([c1 EXCEPT !.heap = [c1.heap EXCEPT ![c1.Buffer] = buf],
                                    !.PrefixLength = (Pl + WriteLength) % UInt32Mod])
                /\ op' = Call("WriteBuffer", WriteLength, WriteReturn(WriteLength), FALSE, FALSE)
                /\ stream' = stream \o Source
                /\ written' = written \o Source
                /\ UNCHANGED status
        /\ misuse' = (misuse \/ ~WriteBufferPre(WriteLength))
        /\ UNCHANGED <<Destination, view, readOut, drained, ahead>>

\* WriteBuffer that also moves to a new block when the write would wrap
WriteBuffer_GrowsOnWrap(Source, p) ==
    LET WriteLength == Len(Source)
        Pl == PrefixLength
        Needed == (Pl + WriteLength) % UInt32Mod
        grow == \/ Needed > AllocLength
                \/ CircularIndex(ReadStart, Pl, AllocLength) + WriteLength > AllocLength
        NewAl == IF grow THEN DoubleUntil(AllocLength, Needed) ELSE AllocLength
        c1 == IF grow THEN ResizeCb(Cb, NewAl, p) ELSE Cb
        buf == WriteCopy(c1.heap[c1.Buffer], c1.ReadStart, Pl, c1.AllocLength, Source)
    IN  /\ status = "running"
        /\ IF NewAl = -1
           THEN /\ status' = "hung"
                /\ UNCHANGED <<cb, heap, op, stream, written>>
           ELSE IF grow /\ p = NULL
           THEN /\ op' = Call("WriteBuffer", WriteLength, FALSE, TRUE, TRUE)
                /\ UNCHANGED <<cb, heap, status, stream, written>>
           ELSE /\ SetCb([c1 EXCEPT !.heap = [c1.heap EXCEPT ![c1.Buffer] = buf],
                                    !.PrefixLength = (Pl + WriteLength) % UInt32Mod])
                /\ op' = Call("WriteBuffer", WriteLength, WriteReturn(WriteLength), FALSE, FALSE)
                /\ stream' = stream \o Source
                /\ written' = written \o Source
                /\ UNCHANGED status
        /\ misuse' = (misuse \/ ~WriteBufferPre(WriteLength))
        /\ UNCHANGED <<Destination, view, readOut, drained, ahead>>

\* VerifiedCircBufWriteBuffer(Cb, Source, Len(Source), &AllocationFailed);
\* malloc, if called, returns p
WriteBuffer(Source, p) ==
    LET WriteLength == Len(Source)
        Pl == PrefixLength
        Needed == (Pl + WriteLength) % UInt32Mod
        grow == Needed > AllocLength
        NewAl == IF grow THEN DoubleUntil(AllocLength, Needed) ELSE AllocLength
        c1 == IF grow THEN ResizeCb(Cb, NewAl, p) ELSE Cb
        buf == WriteCopy(c1.heap[c1.Buffer], c1.ReadStart, Pl, c1.AllocLength, Source)
    IN  /\ status = "running"
        /\ IF NewAl = -1
           THEN /\ status' = "hung"
                /\ UNCHANGED <<cb, heap, op, stream, written>>
           ELSE IF grow /\ p = NULL
           THEN /\ op' = Call("WriteBuffer", WriteLength, FALSE, TRUE, TRUE)
                /\ UNCHANGED <<cb, heap, status, stream, written>>
           ELSE /\ SetCb([c1 EXCEPT !.heap = [c1.heap EXCEPT ![c1.Buffer] = buf],
                                    !.PrefixLength = (Pl + WriteLength) % UInt32Mod])
                /\ op' = Call("WriteBuffer", WriteLength, WriteReturn(WriteLength), FALSE, FALSE)
                /\ stream' = stream \o Source
                /\ written' = written \o Source
                /\ UNCHANGED status
        /\ misuse' = (misuse \/ ~WriteBufferPre(WriteLength))
        /\ UNCHANGED <<Destination, view, readOut, drained, ahead>>

\* ReadBuffer that consumes what it copies
ReadBuffer_Consumes(ReadLength) ==
    /\ status = "running"
    /\ Destination' = ReadCopy(heap[Buffer], ReadStart, AllocLength, ReadLength)
    /\ ReadStart' = CircularIndex(ReadStart, ReadLength, AllocLength)
    /\ PrefixLength' = PrefixLength - ReadLength
    /\ op' = Call("ReadBuffer", ReadLength, TRUE, FALSE, FALSE)
    /\ UNCHANGED <<Buffer, AllocLength, VirtualLength, heap, view, status, hist>>

\* VerifiedCircBufReadBuffer(Cb, Destination, ReadLength)
ReadBuffer(ReadLength) ==
    /\ status = "running"
    /\ Destination' = ReadCopy(heap[Buffer], ReadStart, AllocLength, ReadLength)
    /\ op' = Call("ReadBuffer", ReadLength, TRUE, FALSE, FALSE)
    /\ UNCHANGED <<cb, heap, view, status, hist>>

\* ReadByte that indexes the block with the logical offset
ReadByte_NoReadStart(Offset) ==
    LET PhysIdx == Offset % AllocLength
    IN  /\ status = "running"
        /\ Destination' = <<heap[Buffer][PhysIdx + 1]>>
        /\ op' = Call("ReadByte", Offset, TRUE, FALSE, FALSE)
        /\ UNCHANGED <<cb, heap, view, status, hist>>

\* VerifiedCircBufReadByte(Cb, Offset); the caller keeps the byte returned
ReadByte(Offset) ==
    /\ status = "running"
    /\ Destination' = <<ReadByteResult(heap[Buffer], ReadStart, AllocLength, Offset)>>
    /\ op' = Call("ReadByte", Offset, TRUE, FALSE, FALSE)
    /\ UNCHANGED <<cb, heap, view, status, hist>>

\* VerifiedCircBufGetPrefixLength(Cb); the call records the length returned
GetPrefixLength ==
    /\ status = "running"
    /\ op' = Call("GetPrefixLength", PrefixLength, TRUE, FALSE, FALSE)
    /\ UNCHANGED <<cb, heap, Destination, view, status, hist>>

\* VerifiedCircBufGetAllocLength(Cb); the call records the length returned
GetAllocLength ==
    /\ status = "running"
    /\ op' = Call("GetAllocLength", AllocLength, TRUE, FALSE, FALSE)
    /\ UNCHANGED <<cb, heap, Destination, view, status, hist>>

\* LinearizeToCopy that copies the whole ring whatever DestLength is
LinearizeToCopy_NoClamp(Dest, buf, Rs, OldAllocLength, DestLength) ==
    LET CopyLen == OldAllocLength
        HeadLen == OldAllocLength - Rs
        copied == IF CopyLen <= HeadLen
                  THEN Memcpy(Dest, 0, buf, Rs, CopyLen)
                  ELSE Memcpy(Memcpy(Dest, 0, buf, Rs, HeadLen),
                              HeadLen, buf, 0, CopyLen - HeadLen)
    IN  IF DestLength > OldAllocLength
        THEN Memset(copied, OldAllocLength, DestLength - OldAllocLength)
        ELSE copied

\* the copies and the zero-fill of VerifiedCircBufLinearizeTo on the caller's
\* memory Dest, of which the call may write the first DestLength bytes
LinearizeToCopy(Dest, buf, Rs, OldAllocLength, DestLength) ==
    LET CopyLen == IF OldAllocLength < DestLength THEN OldAllocLength ELSE DestLength
        HeadLen == OldAllocLength - Rs
        copied == IF CopyLen <= HeadLen
                  THEN Memcpy(Dest, 0, buf, Rs, CopyLen)
                  ELSE Memcpy(Memcpy(Dest, 0, buf, Rs, HeadLen),
                              HeadLen, buf, 0, CopyLen - HeadLen)
    IN  IF DestLength > OldAllocLength
        THEN Memset(copied, OldAllocLength, DestLength - OldAllocLength)
        ELSE copied

\* VerifiedCircBufLinearizeTo(Cb, Dest, DestLength)
LinearizeTo(Dest, DestLength) ==
    /\ status = "running"
    /\ Destination' = LinearizeToCopy(Dest, heap[Buffer], ReadStart, AllocLength,
                                      DestLength)
    /\ op' = Call("LinearizeTo", DestLength, TRUE, FALSE, FALSE)
    /\ UNCHANGED <<cb, heap, view, status, hist>>

\* VerifiedCircBufLinearizeTo(Cb, Dest, DestLength) where Dest is block p, which
\* the caller has just got from malloc and which holds g in every byte
LinearizeToBlock(p, g, DestLength) ==
    /\ status = "running"
    /\ heap' = [heap EXCEPT ![p] = LinearizeToCopy(Unwritten(DestLength, g),
                                                   heap[Buffer], ReadStart,
                                                   AllocLength, DestLength)]
    /\ op' = Call("LinearizeTo", DestLength, TRUE, FALSE, FALSE)
    /\ UNCHANGED <<cb, Destination, view, status, hist>>

\* SyncAfterResize that leaves the read head where it was
SyncAfterResize_KeepsReadStart(NewBuffer, NewAllocLength) ==
    /\ status = "running"
    /\ Buffer' = NewBuffer
    /\ AllocLength' = NewAllocLength
    /\ op' = Call("SyncAfterResize", NewAllocLength, TRUE, FALSE, FALSE)
    /\ UNCHANGED <<ReadStart, PrefixLength, VirtualLength, Destination, view,
                   status, hist>>

\* VerifiedCircBufSyncAfterResize(Cb, NewBuffer, NewAllocLength); the blocks are
\* the caller's to allocate and release
SyncAfterResize(NewBuffer, NewAllocLength) ==
    /\ status = "running"
    /\ Buffer' = NewBuffer
    /\ ReadStart' = 0
    /\ AllocLength' = NewAllocLength
    /\ op' = Call("SyncAfterResize", NewAllocLength, TRUE, FALSE, FALSE)
    /\ UNCHANGED <<PrefixLength, VirtualLength, Destination, view, status, hist>>

\* CircularIndex(Cb->ReadStart, Offset, Cb->AllocLength), as WriteByte, ReadByte
\* and Drain call it; the index computed is kept for inspection
IndexOf(Offset) ==
    /\ status = "running"
    /\ Destination' = <<CircularIndex(ReadStart, Offset, AllocLength)>>
    /\ op' = Call("CircularIndex", Offset, TRUE, FALSE, FALSE)
    /\ UNCHANGED <<cb, heap, view, status, hist>>

\* VerifiedCircBufGetInternalBuffer(Cb, &Buffer, &ReadStart, &AllocLength); the
\* caller forms its spans over the PrefixLength readable bytes
GetInternalBuffer ==
    /\ status = "running"
    /\ view' = [ptr |-> Buffer, rs |-> ReadStart, al |-> AllocLength,
                len |-> PrefixLength]
    /\ op' = Call("GetInternalBuffer", 0, TRUE, FALSE, FALSE)
    /\ UNCHANGED <<cb, heap, Destination, status, hist>>

\* VerifiedCircBufWriteByte(Cb, Offset, Byte, NewPrefixLength). The prefix the
\* caller declares holds Byte at Offset, the bytes it held before, and beyond
\* them the bytes already in place.
WriteByte(Offset, Byte, NewPrefixLength) ==
    LET PhysIdx == CircularIndex(ReadStart, Offset, AllocLength)
        prefix == [i \in 1..NewPrefixLength |->
                     IF i - 1 = Offset THEN Byte
                     ELSE IF i <= Len(stream) THEN stream[i]
                     ELSE heap[Buffer][CircularIndex(ReadStart, i - 1, AllocLength) + 1]]
    IN  /\ status = "running"
        /\ heap' = [heap EXCEPT ![Buffer][PhysIdx + 1] = Byte]
        /\ PrefixLength' = NewPrefixLength
        /\ op' = Call("WriteByte", Offset, TRUE, FALSE, FALSE)
        /\ stream' = prefix
        /\ written' = SubSeq(written, 1, Len(written) - Len(stream)) \o prefix
        /\ ahead' = {o \in ahead \cup {Offset} : o >= NewPrefixLength}
        /\ UNCHANGED <<Buffer, ReadStart, AllocLength, VirtualLength, Destination,
                       view, status, readOut, drained, misuse>>

\* ------------------------------------------------- the contract-respecting caller

\* fill_pattern(buf, len, offset): the bytes of the stream at offset .. offset+len-1
fill_pattern(len, offset) == [i \in 1..len |-> (offset + (i - 1)) % (ByteMask + 1)]

\* the chunks a caller may write next: the stream continues at the prefix's end
Sources ==
    {fill_pattern(n, drained + PrefixLength) :
        n \in 0..(MaxTotal - (drained + PrefixLength))}

\* malloc: first fit, or NULL when it fails
MallocResults ==
    {NULL} \cup {p \in FreePtrs : \A q \in FreePtrs : p <= q}

\* Initialize on a zeroed struct, with positive powers of two, alloc <= virtual;
\* this caller asks for no more virtual length than the stream it writes
CallInitialize ==
    \E Al \in Pow2s, Vl \in Pow2s, p \in MallocResults :
        /\ Buffer = NULL /\ AllocLength = 0 /\ Vl <= MaxTotal
        /\ InitializePre(Al, Vl) /\ Initialize(Al, Vl, p)

\* Uninitialize once no view is outstanding
CallUninitialize ==
    Buffer # NULL /\ view = NoView /\ Uninitialize

\* Uninitialize once more on a ring that has been uninitialized
CallUninitializeAgain ==
    Buffer = NULL /\ AllocLength # 0 /\ Uninitialize

\* Initialize once more, on a struct that has been uninitialized
CallInitializeAgain ==
    \E Al \in Pow2s, Vl \in Pow2s, p \in MallocResults :
        /\ Buffer = NULL /\ AllocLength # 0 /\ Vl <= MaxTotal
        /\ InitializePre(Al, Vl) /\ Initialize(Al, Vl, p)

\* Drain with n <= AllocLength and n <= PrefixLength
CallDrain ==
    \E n \in 0..PrefixLength :
        Buffer # NULL /\ DrainPre(n) /\ Drain(n)

\* Drain of exactly the bytes the caller has just copied out
CallDrainCopy ==
    Buffer # NULL /\ Destination # <<>> /\ Drain(Len(Destination))

\* Resize to a power of two in AllocLength .. VirtualLength, no view outstanding
CallResize ==
    \E n \in Pow2s, p \in MallocResults :
        Buffer # NULL /\ view = NoView /\ ResizePre(n) /\ Resize(n, p)

\* WriteBuffer on a gapless ring with PrefixLength + WriteLength <= VirtualLength
CallWriteBuffer ==
    \E src \in Sources, p \in MallocResults :
        Buffer # NULL /\ WriteBufferPre(Len(src)) /\ WriteBuffer(src, p)

\* ReadBuffer with ReadLength <= PrefixLength and <= AllocLength, one copy at a time
CallReadBuffer ==
    \E n \in 1..PrefixLength :
        Buffer # NULL /\ ReadBufferPre(n) /\ Destination = <<>> /\ ReadBuffer(n)

\* GetInternalBuffer when there is something to read and no view is outstanding
CallGetInternalBuffer ==
    Buffer # NULL /\ PrefixLength > 0 /\ view = NoView /\ GetInternalBuffer

\* the new prefix length gap tracking gives for a byte at Offset: a byte at the
\* prefix's end extends the prefix over the bytes already in place behind it
GapPrefix(Offset) ==
    IF Offset = PrefixLength
    THEN CHOOSE k \in (PrefixLength + 1)..AllocLength :
            /\ \A o \in (PrefixLength + 1)..(k - 1) : o \in ahead
            /\ k \notin ahead
    ELSE PrefixLength

\* WriteByte with Offset < AllocLength, the stream's byte at that offset, and
\* the new prefix length from gap tracking
CallWriteByte ==
    \E Offset \in 0..(MaxTotal - drained - 1) :
        /\ Buffer # NULL
        /\ WriteBytePre(Offset)
        /\ WriteByte(Offset, fill_pattern(1, drained + Offset)[1], GapPrefix(Offset))

\* ReadByte with Offset < PrefixLength and Offset < AllocLength
CallReadByte ==
    \E Offset \in 0..(PrefixLength - 1) :
        Buffer # NULL /\ Offset < AllocLength /\ ReadByte(Offset)

\* ReadByte at the offset the preceding WriteByte wrote
CallReadByteBack ==
    Buffer # NULL /\ op.name = "WriteByte" /\ ReadByte(op.len)

\* ReadBuffer of any length within the prefix, 0 included, as often as wanted
CallReadBufferAny ==
    \E n \in 0..PrefixLength :
        Buffer # NULL /\ ReadBufferPre(n) /\ ReadBuffer(n)

CallGetPrefixLength ==
    Buffer # NULL /\ GetPrefixLength

CallGetAllocLength ==
    Buffer # NULL /\ GetAllocLength

\* GetInternalBuffer, as often as wanted
CallGetInternalBufferAny ==
    Buffer # NULL /\ GetInternalBuffer

\* LinearizeTo into an unwritten destination of a power-of-two length
CallLinearizeTo ==
    \E n \in Pow2s :
        Buffer # NULL /\ LinearizeTo(Unwritten(n, ByteMask), n)

\* LinearizeTo with any DestLength up to a little more than the ring, into
\* memory that extends one byte beyond DestLength
CallLinearizeToAny ==
    \E n \in 0..(AllocLength + 2), g \in {0, ByteMask} :
        Buffer # NULL /\ LinearizeTo(Unwritten(n + 1, g), n)

\* the external resize, first call: malloc of a power-of-two length within
\* AllocLength .. VirtualLength, then LinearizeTo into the new block
CallLinearizeToBlock ==
    \E n \in Pow2s, p \in MallocResults \ {NULL}, g \in {0, ByteMask} :
        /\ Buffer # NULL /\ view = NoView /\ ResizePre(n)
        /\ LinearizeToBlock(p, g, n)

\* the external resize, second call: the caller releases the block it replaces
\* and hands the linearized one to SyncAfterResize
CallSyncAfterResize ==
    \E p \in Ptrs \ {Buffer} :
        /\ Buffer # NULL /\ op.name = "LinearizeTo"
        /\ heap[p] # <<>> /\ Len(heap[p]) = op.len
        /\ heap' = [heap EXCEPT ![Buffer] = <<>>]
        /\ SyncAfterResize(p, op.len)

\* CircularIndex with any offset a word can hold
CallIndexOf ==
    \E Offset \in 0..(UInt32Mod - 1) :
        Buffer # NULL /\ IndexOf(Offset)

\* --------------------------- the caller of the end-to-end scenarios: rings of
\* 8 or 16 bytes and a stream of the 20 letters "A" .. "T" (ASCII 65 .. 84)

\* the chunks of letters the scenario's stream may continue with
ScenarioSources ==
    {fill_pattern(n, 65 + drained + PrefixLength) :
        n \in 0..(20 - (drained + PrefixLength))}

\* Initialize on a zeroed struct with the scenarios' lengths: alloc 8 or 16,
\* virtual 16 or 32
CallInitializeScenario ==
    \E Al \in {8, 16}, Vl \in {16, 32}, p \in MallocResults :
        /\ Buffer = NULL /\ AllocLength = 0
        /\ InitializePre(Al, Vl) /\ Initialize(Al, Vl, p)

\* WriteBuffer of the next letters, PrefixLength + WriteLength <= VirtualLength
CallWriteBufferScenario ==
    \E src \in ScenarioSources, p \in MallocResults :
        Buffer # NULL /\ WriteBufferPre(Len(src)) /\ WriteBuffer(src, p)

\* ------------------------------------------------ callers that break the contract

\* WriteBuffer with PrefixLength + WriteLength > VirtualLength
CallWriteBufferOver ==
    \E src \in Sources, p \in MallocResults :
        /\ Buffer # NULL /\ ~misuse
        /\ PrefixLength + Len(src) > VirtualLength
        /\ WriteBuffer(src, p)

\* Drain with n > PrefixLength
CallDrainOver ==
    \E n \in 1..(AllocLength + 1) :
        Buffer # NULL /\ ~misuse /\ n > PrefixLength /\ Drain(n)

\* Resize to a length that is no power of two, when it is not a smaller one;
\* the lengths tried go up to twice the virtual length
CallResizeNoPow2 ==
    \E n \in 1..(2 * VirtualLength), p \in MallocResults :
        /\ Buffer # NULL /\ ~misuse /\ view = NoView
        /\ ~IsPow2(n) /\ (n >= AllocLength \/ p = NULL)
        /\ Resize(n, p)

\* Resize to a length smaller than AllocLength
CallResizeDown ==
    \E n \in 1..(UInt32Mod - 1), p \in MallocResults \ {NULL},
       outcome \in {"crashed", "continued"} :
        /\ Buffer # NULL /\ ~misuse /\ view = NoView
        /\ n < AllocLength
        /\ ResizeOverflow(n, p, outcome)

Next ==
    \/ CallInitialize
    \/ CallUninitialize
    \/ CallDrain
    \/ CallResize
    \/ CallWriteBuffer

Spec == Init /\ [][Next]_vars

\* the copying reader: rounds of ReadBuffer then Drain of the bytes just read
NextRead ==
    \/ CallInitialize
    \/ CallUninitialize
    \/ CallResize
    \/ CallWriteBuffer
    \/ CallReadBuffer
    \/ CallDrainCopy

SpecRead == Init /\ [][NextRead]_vars

\* the zero-copy reader: GetInternalBuffer, then drains
NextView ==
    \/ Next
    \/ CallGetInternalBuffer

SpecView == Init /\ [][NextView]_vars

\* the byte-wise writer with gap tracking
NextByte ==
    \/ Next
    \/ CallWriteByte

SpecByte == Init /\ [][NextByte]_vars

\* the byte-wise writer, which ends by reading back the byte it wrote last
NextByteBack ==
    \/ op.name # "ReadByte" /\ NextByte
    \/ CallReadByteBack

SpecByteBack == Init /\ [][NextByteBack]_vars

\* a caller that may uninitialize the ring more than once
NextTeardown ==
    \/ Next
    \/ CallUninitializeAgain

SpecTeardown == Init /\ [][NextTeardown]_vars

\* a caller that takes the struct through several lives
NextLifecycle ==
    \/ Next
    \/ CallInitializeAgain

SpecLifecycle == Init /\ [][NextLifecycle]_vars

\* the calls that only read the ring
Readers ==
    {"ReadByte", "ReadBuffer", "GetPrefixLength", "GetAllocLength",
     "GetInternalBuffer", "LinearizeTo"}

\* a caller that fills and drains the ring and then inspects it: once it has
\* begun to read it makes read-only calls, any number of them in any order
NextQuery ==
    \/ op.name \notin Readers /\ Next
    \/ CallReadByte
    \/ CallReadBufferAny
    \/ CallGetPrefixLength
    \/ CallGetAllocLength
    \/ CallGetInternalBufferAny
    \/ CallLinearizeTo

SpecQuery == Init /\ [][NextQuery]_vars

\* the byte-wise writer with gap tracking, which then reads bytes, copies and views
NextByteQuery ==
    \/ op.name \notin Readers /\ NextByte
    \/ CallReadByte
    \/ CallReadBufferAny
    \/ CallGetInternalBufferAny

SpecByteQuery == Init /\ [][NextByteQuery]_vars

\* the caller of the end-to-end scenarios, which writes and drains letters and
\* then reads what the ring holds, by copy and by view
NextScenario ==
    \/ op.name \notin Readers /\ CallInitializeScenario
    \/ op.name \notin Readers /\ CallUninitialize
    \/ op.name \notin Readers /\ CallDrain
    \/ op.name \notin Readers /\ CallWriteBufferScenario
    \/ CallReadBufferAny
    \/ CallGetInternalBufferAny

SpecScenario == Init /\ [][NextScenario]_vars

\* a caller that also linearizes the ring: into memory of its own, which ends
\* the run, or into a new block that it then installs with SyncAfterResize
NextLinearize ==
    \/ op.name # "LinearizeTo" /\ Next
    \/ op.name # "LinearizeTo" /\ CallLinearizeToAny
    \/ op.name # "LinearizeTo" /\ CallLinearizeToBlock
    \/ CallSyncAfterResize

SpecLinearize == Init /\ [][NextLinearize]_vars

\* an empty ring of any power-of-two length a word admits, with its read head
\* anywhere in the block
InitIndex ==
    \E Al \in Pow2s, Rs \in 0..(UInt32Mod - 1) :
        /\ Rs < Al
        /\ Buffer = 1
        /\ ReadStart = Rs
        /\ AllocLength = Al
        /\ PrefixLength = 0
        /\ VirtualLength = Al
        /\ heap = [p \in Ptrs |-> IF p = 1 THEN ZeroBuf(Al) ELSE <<>>]
        /\ Destination = <<>>
        /\ view = NoView
        /\ status = "running"
        /\ op = NoOp
        /\ stream = <<>>
        /\ written = <<>>
        /\ readOut = <<>>
        /\ drained = 0
        /\ ahead = {}
        /\ misuse = FALSE

\* the index computation applied to such rings
NextIndex ==
    \/ CallIndexOf

SpecIndex == InitIndex /\ [][NextIndex]_vars

\* a caller that may break a documented precondition, and makes no further
\* call once it has
NextMisuse ==
    \/ ~misuse /\ Next
    \/ CallWriteBufferOver
    \/ CallDrainOver
    \/ CallResizeNoPow2
    \/ CallResizeDown

SpecMisuse == Init /\ [][NextMisuse]_vars

\* ------------------------------------------------------------- the claims

\* C1 - ring coherence: on a live ring the history holds PrefixLength bytes, and
\* for every logical i < PrefixLength the byte at physical index
\* (ReadStart + i) mod AllocLength is the i-th byte written and not yet drained.
RingCoherence ==
    Buffer # NULL =>
        /\ Len(stream) = PrefixLength
        /\ \A i \in 0..(PrefixLength - 1) :
              heap[Buffer][((ReadStart + i) % AllocLength) + 1] = stream[i + 1]

\* a resized ring whose prefix wraps the end of the block
RingCoherenceWitness ==
    /\ Buffer = 2
    /\ PrefixLength >= 2
    /\ ReadStart + PrefixLength > AllocLength

\* C2 - round trip: once as many bytes have been drained as were written, the
\* bytes copied out by the ReadBuffer/Drain rounds are the bytes written, in order.
RoundTrip ==
    drained = Len(written) => readOut = written

\* everything written came back, after a resize and with the read head moved
RoundTripWitness ==
    /\ drained = Len(written)
    /\ drained >= 4
    /\ Buffer = 2
    /\ ReadStart # 0

\* C3 - on a live ring ReadStart < AllocLength and PrefixLength <= AllocLength,
\* whatever WriteBuffer, WriteByte, Drain and Resize calls led there.
RingBounds ==
    Buffer # NULL => (ReadStart < AllocLength /\ PrefixLength <= AllocLength)

\* a WriteByte has filled a ring whose read head is not at 0
RingBoundsWitness ==
    /\ Buffer # NULL
    /\ op.name = "WriteByte"
    /\ PrefixLength = AllocLength
    /\ ReadStart > 0

\* C4 - every step that leaves a live ring leaves AllocLength a power of two,
\* and, when the ring was live before, not smaller than it was.
AllocPow2Monotone ==
    [][Buffer' # NULL =>
          /\ IsPow2(AllocLength')
          /\ Buffer # NULL => AllocLength' >= AllocLength]_vars

\* a WriteBuffer on a ring that has grown and been read from
AllocPow2MonotoneWitness ==
    /\ Buffer = 2
    /\ op.name = "WriteBuffer"
    /\ op.ret
    /\ AllocLength > 1
    /\ readOut # <<>>

\* C5 as stated - after any WriteBuffer call, whatever its WriteLength,
\* AllocLength <= VirtualLength.
GrowthWithinVirtualAnyLength ==
    (Buffer # NULL /\ op.name = "WriteBuffer") => AllocLength <= VirtualLength

\* C5 - a WriteBuffer call with PrefixLength + WriteLength <= VirtualLength on a
\* gapless ring with AllocLength <= VirtualLength leaves AllocLength <= VirtualLength.
GrowthWithinVirtual ==
    [][(/\ op'.name = "WriteBuffer"
        /\ WriteBufferPre(op'.len)
        /\ AllocLength <= VirtualLength) => AllocLength' <= VirtualLength']_vars

\* a WriteBuffer within the contract has filled a ring grown to its virtual length
GrowthWithinVirtualWitness ==
    /\ Buffer = 2
    /\ ~misuse
    /\ op.name = "WriteBuffer"
    /\ AllocLength = VirtualLength
    /\ PrefixLength = AllocLength

\* C6 - modular drain: Drain(n) sets ReadStart to (ReadStart + n) mod AllocLength
\* and PrefixLength to PrefixLength - n, and leaves the buffer, its bytes,
\* AllocLength and VirtualLength as they were.
ModularDrain ==
    [][op'.name = "Drain" =>
          /\ ReadStart' = (ReadStart + op'.len) % AllocLength
          /\ PrefixLength' = PrefixLength - op'.len
          /\ heap' = heap
          /\ Buffer' = Buffer
          /\ AllocLength' = AllocLength
          /\ VirtualLength' = VirtualLength]_vars

\* a drain of the whole prefix that left the read head off 0
ModularDrainWitness ==
    /\ op.name = "Drain"
    /\ op.len > 0
    /\ PrefixLength = 0
    /\ ReadStart # 0

\* C7 - resize linearizes: a successful Resize(NewAllocLength) from allocation
\* length A and read head R leaves a block of NewAllocLength bytes holding
\* old[(R + j) mod A] at every j < A and 0 at every j in [A, NewAllocLength),
\* ReadStart 0, AllocLength NewAllocLength, PrefixLength and VirtualLength unchanged.
ResizeLinearizes ==
    [][(op'.name = "Resize" /\ op'.ret) =>
          /\ Len(heap'[Buffer']) = op'.len
          /\ \A j \in 0..(op'.len - 1) :
                heap'[Buffer'][j + 1] =
                    IF j < AllocLength
                    THEN heap[Buffer][((ReadStart + j) % AllocLength) + 1]
                    ELSE 0
          /\ ReadStart' = 0
          /\ AllocLength' = op'.len
          /\ PrefixLength' = PrefixLength
          /\ VirtualLength' = VirtualLength]_vars

\* a successful Resize that carried bytes lying beyond the prefix
ResizeLinearizesWitness ==
    /\ op.name = "Resize"
    /\ op.ret
    /\ drained > 0
    /\ PrefixLength > 0
    /\ \E j \in PrefixLength..(AllocLength - 1) : heap[Buffer][j + 1] # 0

\* C8 - allocation failure changes nothing: a Resize or WriteBuffer in which
\* malloc returned NULL returns FALSE (WriteBuffer with AllocationFailed set)
\* and leaves Buffer, ReadStart, AllocLength, PrefixLength, VirtualLength and
\* every byte of the heap as they were.
AllocFailureChangesNothing ==
    [][(op'.nomem /\ op'.name \in {"Resize", "WriteBuffer"}) =>
          /\ ~op'.ret
          /\ op'.name = "WriteBuffer" => op'.failed
          /\ UNCHANGED <<cb, heap>>]_vars

\* a WriteBuffer that could not grow a ring holding data behind a moved read head
AllocFailureChangesNothingWitness ==
    /\ op.nomem
    /\ op.name = "WriteBuffer"
    /\ PrefixLength > 0
    /\ ReadStart > 0

\* C9 - no relocation under a zero-copy view: while the bytes of a view are not
\* all drained, the ring still uses the block the view points into, and the
\* block is still allocated.
ViewStaysValid ==
    view # NoView => (Buffer = view.ptr /\ heap[view.ptr] # <<>>)

\* C10 - precondition violations fail loudly: once a Drain or a Resize has
\* broken its precondition the process is not running on.
ViolationsFailLoudly ==
    (misuse /\ op.name \in {"Drain", "Resize"}) => status # "running"

\* C11 - a WriteBuffer in which no allocation failed: when PrefixLength +
\* WriteLength > AllocLength it resizes once (the old block is freed, one new
\* block is allocated) to the smallest power of two >= PrefixLength +
\* WriteLength; otherwise it allocates and frees nothing and keeps AllocLength.
GrowsToSmallestPow2 ==
    [][(op'.name = "WriteBuffer" /\ ~op'.nomem) =>
          IF PrefixLength + op'.len > AllocLength
          THEN /\ IsPow2(AllocLength')
               /\ AllocLength' >= PrefixLength + op'.len
               /\ \A q \in Pow2s : q >= PrefixLength + op'.len => AllocLength' <= q
               /\ Buffer' # Buffer
               /\ heap'[Buffer] = <<>>
               /\ \A q \in Ptrs \ {Buffer, Buffer'} : heap'[q] = heap[q]
          ELSE /\ AllocLength' = AllocLength
               /\ Buffer' = Buffer
               /\ \A q \in Ptrs \ {Buffer} : heap'[q] = heap[q]]_vars

\* a WriteBuffer that had to grow the ring by more than one doubling
GrowsToSmallestPow2Witness ==
    /\ op.name = "WriteBuffer"
    /\ op.ret
    /\ Buffer = 2
    /\ drained = 0
    /\ PrefixLength = op.len
    /\ AllocLength >= 4
    /\ PrefixLength < AllocLength

\* C12 - no-overcommit: the process never hangs in the doubling loop, and on a
\* live ring, for every WriteLength with PrefixLength + WriteLength <=
\* VirtualLength, the loop started at AllocLength ends (the word never wraps to
\* 0 below the needed length) at a capacity that holds the write and is <=
\* VirtualLength.
NoOvercommit ==
    /\ status # "hung"
    /\ Buffer # NULL =>
          \A n \in 0..(VirtualLength - PrefixLength) :
              LET NewAl == DoubleUntil(AllocLength, (PrefixLength + n) % UInt32Mod)
              IN  /\ NewAl # -1
                  /\ NewAl >= PrefixLength + n
                  /\ NewAl <= VirtualLength

\* one WriteBuffer has taken a ring of the largest virtual length a word admits
\* from less than a quarter of it to all of it
NoOvercommitWitness ==
    /\ op.name = "WriteBuffer"
    /\ op.ret
    /\ Buffer = 2
    /\ drained = 0
    /\ 4 * (PrefixLength - op.len + 1) <= AllocLength
    /\ PrefixLength > AllocLength \div 2
    /\ AllocLength = VirtualLength
    /\ 2 * VirtualLength = UInt32Mod

InitializeContract ==
    [][\A Al \in Pow2s, Vl \in Pow2s, p \in Ptrs \cup {NULL} :
          Initialize(Al, Vl, p) =>
              IF p # NULL
              THEN /\ op'.ret
                   /\ Buffer' = p
                   /\ Len(heap'[p]) = Al
                   /\ \A i \in 1..Al : heap'[p][i] = 0
                   /\ \A q \in Ptrs \ {p} : heap'[q] = heap[q]
                   /\ ReadStart' = 0
                   /\ PrefixLength' = 0
                   /\ AllocLength' = Al
                   /\ VirtualLength' = Vl
              ELSE /\ ~op'.ret
                   /\ UNCHANGED <<cb, heap>>]_vars

\* an Initialize has succeeded with an allocation shorter than the virtual length
InitializeContractWitness ==
    /\ op.name = "Initialize"
    /\ op.ret
    /\ Buffer # NULL
    /\ AllocLength > 1
    /\ AllocLength < VirtualLength

\* C16 - Uninitialize is idempotent: after an Uninitialize the buffer is
\* released (Buffer is NULL, no block is allocated, the process runs on), and an
\* Uninitialize that follows an Uninitialize changes no field of the ring and
\* frees no block.
UninitializeIdempotent ==
    /\ [](op.name = "Uninitialize" =>
             /\ Buffer = NULL
             /\ \A p \in Ptrs : heap[p] = <<>>
             /\ status = "running")
    /\ [][(op.name = "Uninitialize" /\ op'.name = "Uninitialize") =>
             UNCHANGED <<cb, heap, status>>]_vars

\* a ring that held data has been uninitialized
UninitializeIdempotentWitness ==
    /\ op.name = "Uninitialize"
    /\ Buffer = NULL
    /\ AllocLength > 0
    /\ PrefixLength > 0

\* C17 - zero-length writes and reads are no-ops: a WriteBuffer with
\* WriteLength = 0 changes no field of the ring and no byte or block of the
\* heap, and reports no allocation failure (malloc is not called); a ReadBuffer
\* with ReadLength = 0 writes no byte of the destination and changes nothing of
\* the ring.
ZeroLengthNoOp ==
    [][/\ (op'.name = "WriteBuffer" /\ op'.len = 0) =>
             /\ UNCHANGED <<cb, heap>>
             /\ ~op'.failed
             /\ ~op'.nomem
       /\ (op'.name = "ReadBuffer" /\ op'.len = 0) =>
             /\ Destination' = <<>>
             /\ UNCHANGED <<cb, heap>>]_vars

\* a zero-length WriteBuffer on a full ring whose read head is not at 0
ZeroLengthNoOpWitness ==
    /\ op.name = "WriteBuffer"
    /\ op.len = 0
    /\ ~op.ret
    /\ PrefixLength = AllocLength
    /\ ReadStart > 0

\* C18 - WriteBuffer returns TRUE exactly when WriteLength > 0 and no resize
\* allocation failed, sets AllocationFailed exactly when a resize allocation
\* failed, and on a TRUE return PrefixLength has grown by exactly WriteLength.
WriteBufferResult ==
    [][op'.name = "WriteBuffer" =>
          /\ op'.ret <=> (op'.len > 0 /\ ~op'.nomem)
          /\ op'.failed <=> op'.nomem
          /\ op'.nomem <=> (PrefixLength + op'.len > AllocLength /\ Buffer' = Buffer)
          /\ op'.ret => PrefixLength' = PrefixLength + op'.len]_vars

\* a WriteBuffer of several bytes has returned TRUE on a ring that already held data
WriteBufferResultWitness ==
    /\ op.name = "WriteBuffer"
    /\ op.ret
    /\ op.len > 1
    /\ PrefixLength > op.len
    /\ ReadStart > 0

\* C19 - reads never mutate: ReadByte, ReadBuffer, GetPrefixLength,
\* GetAllocLength, GetInternalBuffer and LinearizeTo change no field of the ring
\* and no byte or block of the heap, and what each hands back is determined by
\* that unchanged ring: the byte at (ReadStart + Offset) mod AllocLength, the
\* first ReadLength bytes from ReadStart on, PrefixLength, AllocLength, the
\* triple (Buffer, ReadStart, AllocLength), the block unwrapped from ReadStart
\* and zero-filled.
ReadsNeverMutate ==
    [][op'.name \in Readers =>
          LET At(k) == heap[Buffer][((ReadStart + k) % AllocLength) + 1]
          IN  /\ UNCHANGED <<cb, heap>>
              /\ op'.name = "ReadByte" => Destination' = <<At(op'.len)>>
              /\ op'.name = "ReadBuffer" =>
                    Destination' = [i \in 1..op'.len |-> At(i - 1)]
              /\ op'.name = "GetPrefixLength" => op'.len = PrefixLength
              /\ op'.name = "GetAllocLength" => op'.len = AllocLength
              /\ op'.name = "GetInternalBuffer" =>
                    /\ view'.ptr = Buffer
                    /\ view'.rs = ReadStart
                    /\ view'.al = AllocLength
              /\ op'.name = "LinearizeTo" =>
                    Destination' = [j \in 1..op'.len |->
                                       IF j - 1 < AllocLength THEN At(j - 1) ELSE 0]]_vars

\* a ReadBuffer of a wrapped prefix, made after a GetInternalBuffer
ReadsNeverMutateWitness ==
    /\ op.name = "ReadBuffer"
    /\ op.len >= 2
    /\ Len(Destination) = op.len
    /\ view # NoView
    /\ ReadStart + op.len > AllocLength

\* C20 - wrap after drain: a WriteBuffer with PrefixLength + WriteLength <=
\* AllocLength never resizes (same block, same AllocLength, same ReadStart, no
\* allocation), also when WriteStart + WriteLength > AllocLength; its bytes are
\* then split between [WriteStart, AllocLength) and the beginning of the block;
\* a prefix that wraps is read as the two spans [ReadStart, AllocLength) and
\* [0, PrefixLength - (AllocLength - ReadStart)). On a 16-byte ring with 12
\* bytes written and drained, writing "MNOPQRST" puts "MNOP" at [12..16) and
\* "QRST" at [0..4), and AllocLength is still 16.
WrapAfterDrain ==
    /\ [][(op'.name = "WriteBuffer" /\ PrefixLength + op'.len <= AllocLength) =>
            LET n == op'.len
                WriteStart == (ReadStart + PrefixLength) % AllocLength
                SpaceToEnd == AllocLength - WriteStart
                Source == SubSeq(written', Len(written') - n + 1, Len(written'))
            IN  /\ ~op'.failed /\ ~op'.nomem
                /\ Buffer' = Buffer /\ AllocLength' = AllocLength
                /\ ReadStart' = ReadStart
                /\ PrefixLength' = PrefixLength + n
                /\ \A q \in Ptrs \ {Buffer} : heap'[q] = heap[q]
                /\ WriteStart + n > AllocLength =>
                     /\ WriteSegments(ReadStart, PrefixLength, AllocLength, n)
                          = {Seg(WriteStart, 0, SpaceToEnd),
                             Seg(0, SpaceToEnd, n - SpaceToEnd)}
                     /\ SubSeq(heap'[Buffer], WriteStart + 1, AllocLength)
                          = SubSeq(Source, 1, SpaceToEnd)
                     /\ SubSeq(heap'[Buffer], 1, n - SpaceToEnd)
                          = SubSeq(Source, SpaceToEnd + 1, n)
         ]_vars
    /\ [](Buffer # NULL /\ ReadStart + PrefixLength > AllocLength =>
            LET HeadLen == AllocLength - ReadStart
            IN  /\ ReadSegments(ReadStart, AllocLength, PrefixLength)
                     = {Seg(0, ReadStart, HeadLen),
                        Seg(HeadLen, 0, PrefixLength - HeadLen)}
                /\ SubSeq(heap[Buffer], ReadStart + 1, AllocLength)
                     \o SubSeq(heap[Buffer], 1, PrefixLength - HeadLen) = stream
                /\ (op.name = "ReadBuffer" /\ op.len = PrefixLength) =>
                      Destination = stream
                /\ op.name = "GetInternalBuffer" =>
                      view = [ptr |-> Buffer, rs |-> ReadStart,
                              al |-> AllocLength, len |-> PrefixLength])
    /\ [][(/\ op'.name = "WriteBuffer" /\ op'.len = 8
           /\ AllocLength = 16 /\ ReadStart = 12 /\ PrefixLength = 0
           /\ drained = 12) =>
            /\ AllocLength' = 16 /\ ReadStart' = 12 /\ PrefixLength' = 8
            /\ stream' = <<77, 78, 79, 80, 81, 82, 83, 84>>
            /\ SubSeq(heap'[Buffer'], 13, 16) = <<77, 78, 79, 80>>
            /\ SubSeq(heap'[Buffer'], 1, 4) = <<81, 82, 83, 84>>
         ]_vars

\* "MNOPQRST" written in one call to the 16-byte ring after 12 bytes went
\* through it: "MNOP" at [12..16), "QRST" at [0..4), and read back as two spans
WrapAfterDrainWitness ==
    /\ op.name = "ReadBuffer" /\ op.len = 8
    /\ AllocLength = 16 /\ ReadStart = 12 /\ PrefixLength = 8 /\ drained = 12
    /\ SubSeq(heap[Buffer], 13, 16) = <<77, 78, 79, 80>>
    /\ SubSeq(heap[Buffer], 1, 4) = <<81, 82, 83, 84>>
    /\ Destination = <<77, 78, 79, 80, 81, 82, 83, 84>>
    /\ written = fill_pattern(20, 65)

\* C21 - growth under wrap: whenever a WriteBuffer grows the ring (PrefixLength +
\* WriteLength > AllocLength, allocation succeeded), afterwards ReadStart = 0 and
\* the whole prefix lies at [0, PrefixLength) of the block: it is read as one
\* segment, and it holds the bytes of the old prefix first, in their order, then
\* the bytes written. On a ring with alloc 8 and virtual 32, after writing 6
\* bytes and draining 4 (ReadStart 4, prefix 2), writing 10 bytes gives
\* AllocLength 16, ReadStart 0, PrefixLength 12.
GrowthUnderWrap ==
    /\ [][(/\ op'.name = "WriteBuffer" /\ ~op'.nomem
           /\ PrefixLength + op'.len > AllocLength) =>
            LET n == op'.len
                Source == SubSeq(written', Len(written') - n + 1, Len(written'))
            IN  /\ op'.ret
                /\ ReadStart' = 0
                /\ AllocLength' > AllocLength
                /\ PrefixLength' = PrefixLength + n
                /\ SubSeq(heap'[Buffer'], 1, PrefixLength') = stream \o Source
                /\ stream' = stream \o Source
                /\ ReadSegments(ReadStart', AllocLength', PrefixLength')
                     = {Seg(0, 0, PrefixLength')}
         ]_vars
    /\ [][(/\ op'.name = "WriteBuffer" /\ ~op'.nomem /\ op'.len = 10
           /\ AllocLength = 8 /\ VirtualLength = 32
           /\ ReadStart = 4 /\ PrefixLength = 2 /\ drained = 4) =>
            /\ AllocLength' = 16 /\ ReadStart' = 0 /\ PrefixLength' = 12
            /\ VirtualLength' = 32
         ]_vars

\* the instance: the ring of 8 grown to 16 by the 10-byte write, holding the
\* letters "E" .. "P" at [0, 12)
GrowthUnderWrapWitness ==
    /\ op.name = "WriteBuffer" /\ op.len = 10 /\ op.ret
    /\ AllocLength = 16 /\ VirtualLength = 32
    /\ ReadStart = 0 /\ PrefixLength = 12 /\ drained = 4
    /\ Buffer = 2
    /\ SubSeq(heap[Buffer], 1, 12) = fill_pattern(12, 69)
    /\ written = fill_pattern(16, 65)

\* C22 - a write never touches readable data: a WriteBuffer step with
\* PrefixLength + WriteLength <= AllocLength changes, in the ring's block, only
\* the physical positions (ReadStart + PrefixLength + k) mod AllocLength with
\* k < WriteLength, and of the fields only PrefixLength; every byte of the
\* prefix it found, ReadStart, AllocLength, VirtualLength, the buffer pointer
\* and every other block are unchanged.
WriteLeavesPrefix ==
    [][(op'.name = "WriteBuffer" /\ PrefixLength + op'.len <= AllocLength) =>
          LET n == op'.len
              Touched == {(ReadStart + PrefixLength + k) % AllocLength :
                             k \in 0..(n - 1)}
          IN  /\ Buffer' = Buffer
              /\ ReadStart' = ReadStart
              /\ AllocLength' = AllocLength
              /\ VirtualLength' = VirtualLength
              /\ PrefixLength' = PrefixLength + n
              /\ Len(heap'[Buffer]) = AllocLength
              /\ \A idx \in (0..(AllocLength - 1)) \ Touched :
                    heap'[Buffer][idx + 1] = heap[Buffer][idx + 1]
              /\ \A i \in 0..(PrefixLength - 1) :
                    /\ (ReadStart + i) % AllocLength \notin Touched
                    /\ heap'[Buffer][((ReadStart + i) % AllocLength) + 1]
                         = heap[Buffer][((ReadStart + i) % AllocLength) + 1]
              /\ \A q \in Ptrs \ {Buffer} : heap'[q] = heap[q]
      ]_vars

\* a write that wrapped the end of the block behind a prefix it had to keep
WriteLeavesPrefixWitness ==
    /\ op.name = "WriteBuffer" /\ op.ret
    /\ ReadStart > 0
    /\ PrefixLength > op.len
    /\ ReadStart + PrefixLength - op.len < AllocLength
    /\ ReadStart + PrefixLength > AllocLength

\* C23 - WriteByte/ReadByte coherence: a WriteByte(Offset, Byte, NewPrefixLength)
\* step with Offset < AllocLength puts Byte at logical Offset, leaves the byte at
\* every other logical offset below AllocLength and every other block as it
\* was, stores NewPrefixLength in PrefixLength and keeps Buffer, ReadStart,
\* AllocLength and VirtualLength; the ReadByte(Offset) that follows returns Byte
\* and changes nothing.
ByteCoherence ==
    /\ [][op'.name = "WriteByte" =>
            LET Offset == op'.len
                Byte == fill_pattern(1, drained + Offset)[1]
            IN  /\ heap'[Buffer][((ReadStart + Offset) % AllocLength) + 1] = Byte
                /\ \A o \in (0..(AllocLength - 1)) \ {Offset} :
                      heap'[Buffer][((ReadStart + o) % AllocLength) + 1]
                        = heap[Buffer][((ReadStart + o) % AllocLength) + 1]
                /\ Len(heap'[Buffer]) = AllocLength
                /\ \A q \in Ptrs \ {Buffer} : heap'[q] = heap[q]
                /\ PrefixLength' = GapPrefix(Offset)
                /\ UNCHANGED <<Buffer, ReadStart, AllocLength, VirtualLength>>
         ]_vars
    /\ [][(op.name = "WriteByte" /\ op'.name = "ReadByte") =>
            /\ op'.len = op.len
            /\ Destination' = <<fill_pattern(1, drained + op.len)[1]>>
            /\ UNCHANGED <<cb, heap>>
         ]_vars

\* a byte written ahead of the prefix, across the end of the block, and read back
ByteCoherenceWitness ==
    /\ op.name = "ReadByte"
    /\ ReadStart > 0
    /\ op.len >= PrefixLength
    /\ ReadStart + op.len >= AllocLength
    /\ Destination = <<fill_pattern(1, drained + op.len)[1]>>
    /\ Destination[1] # heap[Buffer][(op.len % AllocLength) + 1]

\* C24 - no zero-length second segment: on a live ring, for every call within
\* its documented precondition, WriteBuffer (after its resize), ReadBuffer,
\* Resize and LinearizeTo issue at most two memcpy calls, and when they issue
\* two, the second (and the first) has a length greater than 0; with
\* ReadStart = 0, Resize and LinearizeTo issue a single memcpy.
NoEmptySecondSegment ==
    Buffer # NULL =>
        LET Split(segs) == /\ Cardinality(segs) \in {1, 2}
                           /\ Cardinality(segs) = 2 => \A seg \in segs : seg.n > 0
        IN  /\ \A n \in 0..VirtualLength : WriteBufferPre(n) =>
                  LET grow == PrefixLength + n > AllocLength
                      Al1 == IF grow THEN DoubleUntil(AllocLength, PrefixLength + n)
                             ELSE AllocLength
                      Rs1 == IF grow THEN 0 ELSE ReadStart
                  IN  /\ grow => Split(ResizeSegments(ReadStart, AllocLength))
                      /\ Split(WriteSegments(Rs1, PrefixLength, Al1, n))
            /\ \A n \in 0..AllocLength : ReadBufferPre(n) =>
                  Split(ReadSegments(ReadStart, AllocLength, n))
            /\ Split(ResizeSegments(ReadStart, AllocLength))
            /\ \A n \in 0..(AllocLength + 2) \cup Pow2s :
                  /\ Split(LinearizeToSegments(ReadStart, AllocLength, n))
                  /\ ReadStart = 0 =>
                        Cardinality(LinearizeToSegments(ReadStart, AllocLength, n)) = 1
            /\ ReadStart = 0 =>
                  Cardinality(ResizeSegments(ReadStart, AllocLength)) = 1

\* LinearizeTo has copied a ring whose read head is at 0 into a new block, in
\* one memcpy of the whole old block, and SyncAfterResize has installed it
NoEmptySecondSegmentWitness ==
    /\ op.name = "SyncAfterResize"
    /\ drained = 0
    /\ PrefixLength > 0
    /\ AllocLength >= 4
    /\ SubSeq(heap[Buffer], 1, PrefixLength) = stream

ResizePathsAgree ==
    [][op'.name = "SyncAfterResize" =>
          LET r == ResizeCb(Cb, op'.len, Buffer')
          IN  /\ Buffer # NULL /\ Buffer' # Buffer
              /\ IsPow2(op'.len) /\ op'.len >= AllocLength
              /\ Buffer' = r.Buffer
              /\ ReadStart' = r.ReadStart
              /\ AllocLength' = r.AllocLength
              /\ PrefixLength' = r.PrefixLength
              /\ VirtualLength' = r.VirtualLength
              /\ heap'[Buffer'] = r.heap[r.Buffer]
              /\ heap' = r.heap
      ]_vars

\* an external resize of a ring that had been drained, to twice its length
ResizePathsAgreeWitness ==
    /\ op.name = "SyncAfterResize"
    /\ Buffer = 2
    /\ drained > 0
    /\ PrefixLength >= 2
    /\ AllocLength >= 4
    /\ ReadStart = 0
    /\ SubSeq(heap[Buffer], 1, PrefixLength) = stream
    /\ heap[1] = <<>>

\* C27 - range read equals byte reads: on a live ring, for every ReadLength <=
\* PrefixLength (and <= AllocLength), the Destination ReadBuffer fills holds at
\* every i < ReadLength the byte ReadByte(i) returns, for a prefix that wraps
\* the end of the block as for one that does not; the calls made give these values.
RangeReadIsByteReads ==
    /\ [](Buffer # NULL =>
            \A n \in 0..PrefixLength : ReadBufferPre(n) =>
                /\ Len(ReadCopy(heap[Buffer], ReadStart, AllocLength, n)) = n
                /\ \A i \in 0..(n - 1) :
                      ReadCopy(heap[Buffer], ReadStart, AllocLength, n)[i + 1]
                        = ReadByteResult(heap[Buffer], ReadStart, AllocLength, i))
    /\ [][op'.name = "ReadBuffer" =>
            Destination' = [i \in 1..op'.len |->
                               ReadByteResult(heap[Buffer], ReadStart,
                                              AllocLength, i - 1)]]_vars
    /\ [][op'.name = "ReadByte" =>
            Destination' = <<ReadByteResult(heap[Buffer], ReadStart,
                                            AllocLength, op'.len)>>]_vars

\* a ReadBuffer of a whole prefix that wraps the end of the block
RangeReadIsByteReadsWitness ==
    /\ op.name = "ReadBuffer"
    /\ op.len = PrefixLength
    /\ PrefixLength >= 3
    /\ ReadStart + PrefixLength > AllocLength
    /\ Destination = stream
    /\ \A i \in 0..(op.len - 1) :
          Destination[i + 1] = ReadByteResult(heap[Buffer], ReadStart, AllocLength, i)

\* C28 - drains compose: on a live ring, for a and b with a + b <= PrefixLength,
\* Drain(a) followed by Drain(b) ends in the ring state of a single
\* Drain(a + b), and Drain(0) leaves the ring as it is; every Drain step made
\* ends in the state computed here, and the second of two Drain steps in a row
\* ends where one Drain of the sum, made in the first one's place, ends.
DrainsCompose ==
    /\ [](Buffer # NULL =>
            /\ DrainCb(Cb, 0) = Cb
            /\ \A a \in 0..PrefixLength : \A b \in 0..(PrefixLength - a) :
                  (DrainPre(a) /\ DrainPre(a + b)) =>
                      DrainCb(DrainCb(Cb, a), b) = DrainCb(Cb, a + b))
    /\ [][op'.name = "Drain" =>
            /\ [Buffer |-> Buffer', ReadStart |-> ReadStart',
                AllocLength |-> AllocLength', PrefixLength |-> PrefixLength',
                VirtualLength |-> VirtualLength', heap |-> heap']
                 = DrainCb(Cb, op'.len)
            /\ op'.len = 0 => UNCHANGED <<cb, heap>>]_vars
    /\ [][(op.name = "Drain" /\ op'.name = "Drain") =>
            LET a == op.len
                b == op'.len
                before == [Cb EXCEPT
                             !.ReadStart = (ReadStart - a + AllocLength) % AllocLength,
                             !.PrefixLength = PrefixLength + a]
            IN  /\ DrainCb(before, a) = Cb
                /\ [Buffer |-> Buffer', ReadStart |-> ReadStart',
                    AllocLength |-> AllocLength', PrefixLength |-> PrefixLength',
                    VirtualLength |-> VirtualLength', heap |-> heap']
                     = DrainCb(before, a + b)]_vars

\* a second drain, which took the read head around the end of the block
DrainsComposeWitness ==
    /\ op.name = "Drain"
    /\ op.len > 0
    /\ drained > op.len
    /\ ReadStart < op.len
    /\ PrefixLength > 0

\* C29 - exactly one live allocation: with Initialize, WriteBuffer, Drain,
\* Resize and Uninitialize, allocations failing or not, an initialized ring
\* points at an allocated block of AllocLength bytes and no other block is
\* allocated; without a ring (before Initialize, after Uninitialize) no block is
\* allocated; the process never dies of a bad free or access; a block is freed
\* only when it is the ring's allocated block, by Uninitialize or by a resize
\* whose new block, free until then, already holds the old contents unwrapped;
\* a block becomes allocated only as the ring's new block.
OneLiveAllocation ==
    /\ [](/\ status = "running"
          /\ Buffer # NULL =>
                /\ heap[Buffer] # <<>>
                /\ Len(heap[Buffer]) = AllocLength
                /\ \A q \in Ptrs \ {Buffer} : heap[q] = <<>>
                /\ Cardinality({q \in Ptrs : heap[q] # <<>>}) = 1
          /\ Buffer = NULL => \A q \in Ptrs : heap[q] = <<>>
          /\ op.name = "Uninitialize" => Buffer = NULL)
    /\ [][\A q \in Ptrs :
            /\ (heap[q] # <<>> /\ heap'[q] = <<>>) =>
                  /\ q = Buffer
                  /\ \/ op'.name = "Uninitialize" /\ Buffer' = NULL
                     \/ /\ op'.name \in {"Resize", "WriteBuffer"}
                        /\ Buffer' \notin {NULL, q}
                        /\ heap[Buffer'] = <<>>
                        /\ ReadStart' = 0
                        /\ \A j \in 0..(AllocLength - 1) :
                              \/ heap'[Buffer'][j + 1]
                                   = heap[q][((ReadStart + j) % AllocLength) + 1]
                              \/ /\ op'.name = "WriteBuffer"
                                 /\ j >= PrefixLength
                                 /\ j < PrefixLength'
            /\ (heap[q] = <<>> /\ heap'[q] # <<>>) =>
                  /\ q = Buffer'
                  /\ op'.name \in {"Initialize", "Resize", "WriteBuffer"}
            /\ (heap[q] # <<>> /\ heap'[q] # <<>>) => q = Buffer /\ q = Buffer'
         ]_vars

\* a ring that a second resize has brought back to the block it started in;
\* the other block is free again
OneLiveAllocationWitness ==
    /\ op.name = "Resize" /\ op.ret
    /\ Buffer = 1
    /\ heap[2] = <<>>
    /\ PrefixLength > 0
    /\ drained > 0

\* C30 - the circular index is immune to word wraparound: for every
\* power-of-two AllocLength up to half the word's range, every ReadStart <
\* AllocLength and every Offset of the word, CircularIndex, computed as
\* ((ReadStart + Offset) mod 2^32) mod AllocLength, is < AllocLength and equals
\* (ReadStart + Offset) mod AllocLength over the unbounded integers.
IndexImmuneToWrap ==
    /\ IsPow2(AllocLength) /\ AllocLength <= UInt32Mod \div 2
    /\ ReadStart < AllocLength
    /\ op.name = "CircularIndex" =>
          /\ op.len \in 0..(UInt32Mod - 1)
          /\ Len(Destination) = 1
          /\ Destination[1] >= 0
          /\ Destination[1] < AllocLength
          /\ Destination[1] = (ReadStart + op.len) % AllocLength
    /\ \A Offset \in 0..(UInt32Mod - 1) :
          /\ CircularIndex(ReadStart, Offset, AllocLength) < AllocLength
          /\ CircularIndex(ReadStart, Offset, AllocLength)
               = (ReadStart + Offset) % AllocLength

\* the largest ring, and an offset that takes the sum past the end of the word
IndexImmuneToWrapWitness ==
    /\ op.name = "CircularIndex"
    /\ 2 * AllocLength = UInt32Mod
    /\ ReadStart + op.len > UInt32Mod
    /\ op.len > AllocLength
    /\ Destination = <<ReadStart + op.len - UInt32Mod>>

====
